---- MODULE Spec2Model ----
(***************************************************************************)
(* convert_simulation_data of map_converter.py as a state machine.         *)
(*                                                                         *)
(* One run of the function is one behaviour: ReadConfig, then for each     *)
(* manifest entry one NextSource step, one NodeRecord or LinkRecord step   *)
(* per record of the entry's file and one Continue step back to the loop   *)
(* head, then Finalize.  The content of the manifest, of each entry, of    *)
(* each data-source file and of each record is fixed by the environment    *)
(* and is drawn when the code first reads it.                              *)
(*                                                                         *)
(* Python values are tagged records [t, v]: None/null, numbers, floats,    *)
(* strings (sequences of fragments) and objects (functions from keys to    *)
(* values).  An exception travelling up an expression is a value tagged    *)
(* "exc".                                                                  *)
(***************************************************************************)
EXTENDS Integers, Sequences, FiniteSets, TLC

\* Bounds of the model: the entries of a manifest, and the records of all the
\* files of a run together.
MaxEntries == 2
MaxRecords == 2

VARIABLES
    pc,                    \* position of the run
    docker_path_prefix,    \* argument
    host_path_prefix,      \* argument
    config,                \* what reading the manifest gave
    idx,                   \* entries of actorsDataSources consumed so far
    class_type,            \* locals of the current loop iteration
    resource_id,
    original_file_path,
    file_path,
    todo,                  \* records of the open file not yet iterated
    all_vertices,
    all_edges,
    node_files_processed,
    link_files_processed,
    files_not_found,
    json_errors,
    key_errors,
    out_dir_created,       \* os.makedirs(output_dir) succeeded
    out_mkdir,             \* what became of the directory step of the save
    out_writes,            \* number of open(output_path, 'w') calls
    out_file,              \* content of the output file
    budget,                \* records the environment may still supply
    n_opened,              \* log: open() calls on data-source files
    some_ok,               \* log: some entry so far did not fail
    expected_vertices,     \* log: vertices the valid node records call for
    expected_edges,        \* log: edges the valid link records call for
    entry_kind,            \* log: what the entry of this iteration is
    read_kind,             \* log: what reading its file gave
    rec_kind,              \* log: what the record just iterated is
    first_defined,         \* log: the link record just iterated was treated
                           \* as the first-defined-value reading calls for
    first_truthy,          \* log: ... as the first-truthy-value reading
                           \* calls for
    entry_gave             \* log: the entry has given a vertex or an edge

vars == << pc, docker_path_prefix, host_path_prefix, config, idx, class_type,
           resource_id, original_file_path, file_path, todo, all_vertices,
           all_edges, node_files_processed, link_files_processed,
           files_not_found, json_errors, key_errors, out_dir_created,
           out_mkdir, out_writes, out_file, budget, n_opened, some_ok,
           expected_vertices, expected_edges, entry_kind, read_kind,
           rec_kind, first_defined, first_truthy, entry_gave >>

---------------------------------------------------------------------------
\* Python values.

None == [t |-> "none", v |-> 0]
Num(n) == [t |-> "num", v |-> n]
Flt(n) == [t |-> "float", v |-> n]
Str(s) == [t |-> "str", v |-> s]
Obj(f) == [t |-> "obj", v |-> f]
Exc(k) == [t |-> "exc", v |-> k]
Absent == [t |-> "absent", v |-> 0]

EmptyObj == Obj([k \in {} |-> None])

\* A JSON object given by a record whose Absent fields are keys it lacks.
MkObj(fields) ==
    Obj([k \in {k \in DOMAIN fields : fields[k] # Absent} |-> fields[k]])

IsExc(x) == x.t = "exc"

\* bool(x)
Truthy(x) ==
    CASE x.t = "none" -> FALSE
      [] x.t = "num" -> x.v # 0
      [] x.t = "float" -> x.v # 0
      [] x.t = "str" -> x.v # << >>
      [] x.t = "obj" -> DOMAIN x.v # {}
      [] OTHER -> FALSE

\* d.get(k, dflt)
Get(d, k, dflt) ==
    IF IsExc(d) THEN d
    ELSE IF d.t # "obj" THEN Exc("AttributeError")
    ELSE IF k \in DOMAIN d.v THEN d.v[k]
    ELSE dflt

\* d[k]
Item(d, k) ==
    IF IsExc(d) THEN d
    ELSE IF d.t # "obj" THEN Exc("TypeError")
    ELSE IF k \in DOMAIN d.v THEN d.v[k]
    ELSE Exc("KeyError")

\* a or b
Or(a, b) == IF IsExc(a) THEN a ELSE IF Truthy(a) THEN a ELSE b

---------------------------------------------------------------------------
\* Strings are sequences of fragments.

\* s.startswith(p)
StartsWith(s, p) == Len(p) <= Len(s) /\ SubSeq(s, 1, Len(p)) = p

\* s.find(old) + 1: the place of the first occurrence of old in s, 0 if none
Find(s, old) ==
    LET hits == {k \in 1..(Len(s) + 1) :
                    /\ k + Len(old) - 1 <= Len(s)
                    /\ SubSeq(s, k, k + Len(old) - 1) = old}
    IN IF hits = {} THEN 0 ELSE CHOOSE k \in hits : \A j \in hits : k <= j

\* sub in s
Contains(s, sub) == Find(s, sub) # 0

RECURSIVE ReplaceAll(_, _, _)
\* s.replace(old, new), for a non-empty old
ReplaceAll(s, old, new) ==
    LET k == Find(s, old)
    IN IF k = 0 \/ old = << >> THEN s
       ELSE SubSeq(s, 1, k - 1) \o new
            \o ReplaceAll(SubSeq(s, k + Len(old), Len(s)), old, new)

\* s.replace(old, new, 1)
ReplaceFirst(s, old, new) ==
    LET k == Find(s, old)
    IN IF k = 0 THEN s
       ELSE SubSeq(s, 1, k - 1) \o new \o SubSeq(s, k + Len(old), Len(s))

Digits == {"0", "1", "2", "3", "4", "5", "6", "7", "8", "9"}

DigitValue(c) ==
    CASE c = "0" -> 0 [] c = "1" -> 1 [] c = "2" -> 2 [] c = "3" -> 3
      [] c = "4" -> 4 [] c = "5" -> 5 [] c = "6" -> 6 [] c = "7" -> 7
      [] c = "8" -> 8 [] c = "9" -> 9

IsNumeric(s) == s # << >> /\ \A k \in 1..Len(s) : s[k] \in Digits

RECURSIVE ParseDigits(_)
ParseDigits(s) ==
    IF s = << >> THEN 0
    ELSE 10 * ParseDigits(SubSeq(s, 1, Len(s) - 1)) + DigitValue(s[Len(s)])

\* float(x)
Float(x) ==
    CASE IsExc(x) -> x
      [] x.t = "str" ->
            IF IsNumeric(x.v) THEN Flt(ParseDigits(x.v)) ELSE Exc("ValueError")
      [] x.t \in {"num", "float"} -> Flt(x.v)
      [] OTHER -> Exc("TypeError")

NodeTag == "mobility.actor.Node"
LinkTag == "mobility.actor.Link"

---------------------------------------------------------------------------
\* What the environment can hand to the run.

\* The prefix arguments: not given, empty, or a string.
DockerPrefixes == {None, Str(<< >>), Str(<<"a">>), Str(<<"a", "b">>)}
HostPrefixes == {None, Str(<< >>), Str(<<"h">>), Str(<<"a", "h">>)}

PrefixPairs == {<<Str(<<"a">>), Str(<<"h">>)>>}
AllPrefixPairs == DockerPrefixes \X HostPrefixes

\* What reading the manifest gives: an exception of open()/json.load(), or a
\* JSON value.  t is the exception or the type of the top-level value, has
\* tells whether "actorsDataSources" in config is true of it, ads is the
\* type and length of the value under that key.
Manifest(t, has, at, n) == [t |-> t, has |-> has, ads |-> [t |-> at, n |-> n]]

Manifests ==
    {Manifest(t, FALSE, "none", 0) :
        t \in {"FileNotFoundError", "JSONDecodeError", "OSError", "none", "num"}}
    \cup {Manifest(t, h, "none", 0) : t \in {"str", "arr"}, h \in BOOLEAN}
    \cup {Manifest("obj", FALSE, "none", 0)}
    \cup {Manifest("obj", TRUE, at, 0) : at \in {"none", "num"}}
    \cup {Manifest("obj", TRUE, at, n) :
            at \in {"str", "obj", "arr"}, n \in 0..MaxEntries}

Unread == Manifest("unread", FALSE, "none", 0)

\* The value at dataSource.info.path: missing, a number, or a string.
PathValues == {Absent, Str(<< >>), Str(<<"a", "b">>)}
AllPathValues ==
    {Absent, Num(5), Str(<<"a", "b">>), Str(<<"a", "a", "b">>),
     Str(<<"b", "a">>), Str(<<"a", "b", "a", "b">>)}

ClassTypeValues ==
    {Absent, Num(7), Str(<<NodeTag>>), Str(<<LinkTag>>),
     Str(<<LinkTag, NodeTag>>), Str(<<"mobility.actor.Car">>)}

\* The value at id of the k-th entry: missing, empty, or the entry's own.
IdValues(k) == {Absent, Str(<< >>), Str(<<"r", k>>)}

InfoValues(paths) == {Absent, None} \cup {MkObj([path |-> p]) : p \in paths}

DataSourceValues(paths) ==
    {Absent, None} \cup {MkObj([info |-> x]) : x \in InfoValues(paths)}

\* The elements of config["actorsDataSources"]: iterating a string or an
\* object gives strings, a list holds any value.
EntryValues(adsType, k, paths) ==
    IF adsType # "arr" THEN {Str(<<"k">>)}
    ELSE {Str(<<"k">>)}
         \cup {MkObj([classType |-> c, id |-> r, dataSource |-> d]) :
                 c \in ClassTypeValues, r \in IdValues(k),
                 d \in DataSourceValues(paths)}

\* The records a node file can hold.
NodeContents ==
    {MkObj([latitude |-> a, longitude |-> b]) :
        a \in {Absent, Num(1)}, b \in {Absent, Num(2)}}

NodeDatas ==
    {Absent, None}
    \cup {MkObj([content |-> c]) : c \in {Absent, None} \cup NodeContents}

NodeRecords ==
    {Str(<<"x">>)}
    \cup {MkObj([id |-> n, typeActor |-> a, data |-> d]) :
            n \in {Absent, Str(<<"v1">>)},
            a \in {Absent, Str(<<"T">>)},
            d \in NodeDatas}

\* The records a link file can hold.
LinkRecord3(id, data, dependencies) ==
    MkObj([id |-> id, data |-> data, dependencies |-> dependencies])

LinkData(length, from, to) ==
    MkObj([content |-> MkObj([length |-> length, from_node |-> from,
                              to_node |-> to])])

LengthValues == {Absent, None, Str(<<"1", "2">>), Str(<<"a">>)}

PrimaryEnds == {Absent, Str(<< >>), Str(<<"n1">>)}

DependencyEnd == MkObj([id |-> Str(<<"n2">>)])

Dependencies ==
    {Absent, None}
    \cup {MkObj([from_node |-> f, to_node |-> g]) :
            f \in {Absent, None, DependencyEnd}, g \in {Absent, DependencyEnd}}

\* Records with a sound id and length, over every way of giving the ends.
EndRecords ==
    {LinkRecord3(Str(<<"l1">>), LinkData(Str(<<"1", "2">>), f, g), q) :
        f \in PrimaryEnds, g \in PrimaryEnds, q \in Dependencies}

\* Records over every id and length, with the ends given in full, not at
\* all, or with "dependencies" not an object.
FieldRecords ==
    {LinkRecord3(n, LinkData(l, f, f), q) :
        n \in {Absent, Str(<<"l1">>)}, l \in LengthValues,
        f \in {Absent, Str(<<"n1">>)}, q \in {Absent, None}}

\* Records whose "data" or "content" is missing or not an object.
BrokenRecords ==
    {LinkRecord3(n, d, q) :
        n \in {Absent, Str(<<"l1">>)},
        d \in {Absent, None, MkObj([content |-> None]), EmptyObj},
        q \in {Absent, None,
               MkObj([from_node |-> DependencyEnd, to_node |-> DependencyEnd])}}

LinkRecords == {Str(<<"x">>)} \cup EndRecords \cup FieldRecords \cup BrokenRecords

---------------------------------------------------------------------------
\* What the input holds, read off its structure (not the way the code reads
\* it): the terms the properties are stated in.

RECURSIVE Locate(_, _)
\* The value at the end of a path of keys, Absent when the path breaks off.
Locate(x, ks) ==
    IF ks = << >> THEN x
    ELSE IF x.t = "obj" /\ Head(ks) \in DOMAIN x.v
         THEN Locate(x.v[Head(ks)], Tail(ks))
         ELSE Absent

RECURSIVE MissingOn(_, _)
\* Some object along the path lacks the key the path asks of it.
MissingOn(x, ks) ==
    /\ ks # << >>
    /\ x.t = "obj"
    /\ \/ Head(ks) \notin DOMAIN x.v
       \/ MissingOn(x.v[Head(ks)], Tail(ks))

\* Missing or empty.
Lacks(x) == x \in {Absent, None, Str(<< >>)}

HasTag(x, tag) == x.t = "str" /\ Contains(x.v, <<tag>>)

IgnoredEntry(e) ==
    /\ e.t = "obj"
    /\ \/ Lacks(Locate(e, <<"id">>))
       \/ Lacks(Locate(e, <<"dataSource", "info", "path">>))
       \/ /\ ~HasTag(Locate(e, <<"classType">>), NodeTag)
          /\ ~HasTag(Locate(e, <<"classType">>), LinkTag)

EntryKind(e) ==
    IF e.t # "obj" THEN "junk"
    ELSE IF IgnoredEntry(e) THEN "ignored"
    ELSE IF HasTag(Locate(e, <<"classType">>), NodeTag) THEN "node"
    ELSE "link"

NodePaths ==
    {<<"id">>, <<"typeActor">>, <<"data", "content", "latitude">>,
     <<"data", "content", "longitude">>}

ValidNode(r) == \A p \in NodePaths : Locate(r, p) # Absent

NodeKind(r) ==
    IF ValidNode(r) THEN "valid"
    ELSE IF \E p \in NodePaths : MissingOn(r, p) THEN "missing_field"
    ELSE "malformed"

Parseable(x) == x.t = "num" \/ (x.t = "str" /\ IsNumeric(x.v))

\* A location yields a value: under the truthy reading an empty or zero
\* value counts as none.
Yields(x, truthy) == x \notin {Absent, None} /\ (truthy => Truthy(x))

EndPoint(r, e, truthy) ==
    LET primary == Locate(r, <<"data", "content", e>>)
        fallback == Locate(r, <<"dependencies", e, "id">>)
    IN IF Yields(primary, truthy) THEN primary ELSE fallback

Resolves(r, e, truthy) == Yields(EndPoint(r, e, truthy), truthy)

ValidLink(r, truthy) ==
    /\ Locate(r, <<"id">>) # Absent
    /\ Parseable(Locate(r, <<"data", "content", "length">>))
    /\ Resolves(r, "from_node", truthy)
    /\ Resolves(r, "to_node", truthy)

WellTypedDependencies(r) ==
    LET q == Locate(r, <<"dependencies">>)
    IN \/ q = Absent
       \/ /\ q.t = "obj"
          /\ \A e \in {"from_node", "to_node"} :
                Locate(q, <<e>>) = Absent \/ Locate(q, <<e>>).t = "obj"

LinkKind(r) ==
    LET len == Locate(r, <<"data", "content", "length">>)
    IN IF r.t # "obj" THEN "malformed"
       ELSE IF ValidLink(r, TRUE) THEN "valid"
       ELSE IF len.t = "str" /\ ~IsNumeric(len.v) THEN "bad_length"
       ELSE IF \/ MissingOn(r, <<"id">>)
               \/ MissingOn(r, <<"data", "content", "length">>)
            THEN "missing_field"
       ELSE IF Parseable(len) /\ WellTypedDependencies(r)
            THEN "missing_endpoint"
       ELSE "malformed"

\* The three record-level errors.
RecordError(kind) == kind \in {"missing_field", "bad_length", "missing_endpoint"}

\* What became of a link record agrees with the reading: an edge only if both
\* ends resolve, and then with the ends the reading gives.
EndsAgree(r, built, truthy) ==
    built.t = "edge" =>
        /\ Resolves(r, "from_node", truthy)
        /\ Resolves(r, "to_node", truthy)
        /\ built.v.source_id = EndPoint(r, "from_node", truthy)
        /\ built.v.target_id = EndPoint(r, "to_node", truthy)

ExpectedVertex(r, rid) == [id |-> Locate(r, <<"id">>), resourceId |-> rid]

ExpectedEdge(r, rid, truthy) ==
    [id |-> Locate(r, <<"id">>), resourceId |-> rid,
     source_id |-> EndPoint(r, "from_node", truthy),
     target_id |-> EndPoint(r, "to_node", truthy)]

---------------------------------------------------------------------------
\* The run.

args == << docker_path_prefix, host_path_prefix >>
locals == << class_type, resource_id, original_file_path, file_path >>
graph == << all_vertices, all_edges >>
processed == << node_files_processed, link_files_processed >>
buckets == << files_not_found, json_errors, key_errors >>
output == << out_dir_created, out_mkdir, out_writes, out_file >>
runLog == << n_opened, some_ok, expected_vertices, expected_edges >>
iterLog ==
    << entry_kind, read_kind, rec_kind, first_defined, first_truthy,
       entry_gave >>

NoFile == [t |-> "absent", v |-> 0]

InitOver(prefixes, records) ==
    /\ pc = "start"
    /\ \E pair \in prefixes :
          /\ docker_path_prefix = pair[1]
          /\ host_path_prefix = pair[2]
    /\ config = Unread
    /\ idx = 0
    /\ class_type = None
    /\ resource_id = None
    /\ original_file_path = None
    /\ file_path = None
    /\ todo = 0
    /\ all_vertices = << >>
    /\ all_edges = << >>
    /\ node_files_processed = << >>
    /\ link_files_processed = << >>
    /\ files_not_found = << >>
    /\ json_errors = << >>
    /\ key_errors = << >>
    /\ out_dir_created = FALSE
    /\ out_mkdir = "not_reached"
    /\ out_writes = 0
    /\ out_file = NoFile
    /\ budget = records
    /\ n_opened = 0
    /\ some_ok = FALSE
    /\ expected_vertices = << >>
    /\ expected_edges = << >>
    /\ entry_kind = "none"
    /\ read_kind = "none"
    /\ rec_kind = "none"
    /\ first_defined = TRUE
    /\ first_truthy = TRUE
    /\ entry_gave = FALSE

\* ManifestCheck without the test of the key: config.get("actorsDataSources",
\* []) is iterated whether the key is there or not.
ManifestCheckNoKey(m) ==
    IF m.t \in {"FileNotFoundError", "JSONDecodeError", "OSError"} THEN "return"
    ELSE IF m.t \in {"none", "num"} THEN "raise"
    ELSE IF m.t # "obj" THEN "raise"
    ELSE IF m.has /\ m.ads.t \in {"none", "num"} THEN "raise"
    ELSE "loop"

\* What becomes of the run at the manifest: the three excepts, the test
\* "actorsDataSources" not in config, and the start of the loop over
\* config.get("actorsDataSources", []).
ManifestCheck(m) ==
    IF m.t \in {"FileNotFoundError", "JSONDecodeError", "OSError"} THEN "return"
    ELSE IF m.t \in {"none", "num"} THEN "raise"
    ELSE IF ~m.has THEN "return"
    ELSE IF m.t # "obj" THEN "raise"
    ELSE IF m.ads.t \in {"none", "num"} THEN "raise"
    ELSE "loop"

ReadConfig ==
    /\ pc = "start"
    /\ \E m \in Manifests :
          /\ config' = m
          /\ pc' = CASE ManifestCheck(m) = "return" -> "done"
                     [] ManifestCheck(m) = "raise" -> "raised"
                     [] OTHER -> "loop"
    /\ UNCHANGED << args, idx, locals, todo, graph, processed, buckets, output,
                    budget, runLog, iterLog >>

\* The file the entry's path stands for on this machine.
RemapPath(path, docker, host) ==
    IF Truthy(docker) /\ Truthy(host)
    THEN IF path.t # "str" THEN Exc("AttributeError")
         ELSE IF StartsWith(path.v, docker.v)
              THEN Str(ReplaceFirst(path.v, docker.v, host.v))
              ELSE path
    ELSE path

\* "mobility.actor.Node" in class_type
In(tag, x) ==
    IF x.t # "str" THEN Exc("TypeError")
    ELSE IF Contains(x.v, <<tag>>) THEN Num(1) ELSE Num(0)

FileReadsUpTo(b) ==
    {[r |-> x, n |-> 0] :
        x \in {"FileNotFoundError", "JSONDecodeError", "OSError", "nonlist"}}
    \cup {[r |-> "list", n |-> k] : k \in 0..b}

\* The messages of the buckets, by their fixed text.
NotFoundMsg(what) == what \o " file not found"

DecodeMsg(what) == "Failed to decode JSON in " \o what \o " file"

\* The locals of the loop body.  Every iteration binds them anew before it
\* reads them, so what they hold between two iterations is not kept.
Bind(ct, rid, ofp, fp) ==
    /\ class_type' = ct
    /\ resource_id' = rid
    /\ original_file_path' = ofp
    /\ file_path' = fp

\* The exception propagates out of convert_simulation_data.
Raised ==
    /\ pc' = "raised"
    /\ UNCHANGED << config, args, idx, locals, todo, graph, processed, buckets,
                    output, budget, runLog, read_kind, rec_kind,
                    first_defined, first_truthy, entry_gave >>

\* continue, or the else branch: no file is looked at
Skip ==
    /\ pc' = "next"
    /\ idx' = idx + 1
    /\ UNCHANGED << config, args, locals, todo, graph, processed, buckets,
                    output, budget, runLog, read_kind, rec_kind,
                    first_defined, first_truthy, entry_gave >>

\* The try block of a node or link entry, up to its record loop.
OpenFile(what, ct, rid, ofp, fp, read) ==
    /\ idx' = idx + 1
    /\ Bind(ct, rid, ofp, fp)
    /\ IF what = "Node"
       THEN /\ node_files_processed' = Append(node_files_processed, ofp)
            /\ UNCHANGED link_files_processed
       ELSE /\ link_files_processed' = Append(link_files_processed, ofp)
            /\ UNCHANGED node_files_processed
    /\ n_opened' = n_opened + 1
    /\ files_not_found' =
          IF read.r = "FileNotFoundError"
          THEN Append(files_not_found, NotFoundMsg(what))
          ELSE files_not_found
    /\ json_errors' =
          IF read.r = "JSONDecodeError"
          THEN Append(json_errors, DecodeMsg(what))
          ELSE json_errors
    /\ todo' = read.n
    /\ budget' = budget - read.n
    /\ pc' = IF read.n = 0 THEN "next"
             ELSE IF what = "Node" THEN "nodes" ELSE "links"
    /\ read_kind' = read.r
    /\ UNCHANGED << config, args, graph, key_errors, output, some_ok,
                    expected_vertices, expected_edges, rec_kind,
                    first_defined, first_truthy, entry_gave >>

\* One pass through the body of the loop over actorsDataSources, up to the
\* record loop of the entry's file, for an entry with one of these paths.
SourceOver(paths) ==
    /\ pc = "loop"
    /\ idx < config.ads.n
    /\ \E data_source_info \in EntryValues(config.ads.t, idx + 1, paths) :
          LET ct == Get(data_source_info, "classType", Str(<< >>))
              rid == Get(data_source_info, "id", None)
              details == Get(Get(data_source_info, "dataSource", EmptyObj),
                             "info", EmptyObj)
              ofp == Get(details, "path", None)
              fp == RemapPath(ofp, docker_path_prefix, host_path_prefix)
          IN /\ entry_kind' = EntryKind(data_source_info)
             /\ IF IsExc(ct) \/ IsExc(rid) \/ IsExc(details) \/ IsExc(ofp)
                THEN Raised
                ELSE IF ~Truthy(rid) \/ ~Truthy(ofp)
                THEN Skip
                ELSE IF IsExc(fp) \/ IsExc(In(NodeTag, ct))
                THEN Raised
                ELSE IF In(NodeTag, ct) = Num(1)
                THEN \E read \in FileReadsUpTo(budget) :
                        OpenFile("Node", ct, rid, ofp, fp, read)
                ELSE IF In(LinkTag, ct) = Num(1)
                THEN \E read \in FileReadsUpTo(budget) :
                        OpenFile("Link", ct, rid, ofp, fp, read)
                ELSE Skip

\* The entry of this iteration failed: its file could not be read, did not
\* hold a list, or held records that were all dropped.
EntryFailed ==
    \/ read_kind \in {"FileNotFoundError", "JSONDecodeError", "OSError",
                      "nonlist"}
    \/ read_kind = "list" /\ rec_kind # "none" /\ ~entry_gave

\* The body of the loop is over: back to the for statement.
Continue ==
    /\ pc = "next"
    /\ pc' = "loop"
    /\ Bind(None, None, None, None)
    /\ some_ok' = (some_ok \/ ~EntryFailed)
    /\ entry_kind' = "none"
    /\ read_kind' = "none"
    /\ rec_kind' = "none"
    /\ first_defined' = TRUE
    /\ first_truthy' = TRUE
    /\ entry_gave' = FALSE
    /\ UNCHANGED << config, args, idx, todo, graph, processed, buckets, output,
                    budget, n_opened, expected_vertices, expected_edges >>

\* BuildVertex reading the coordinates with .get(): a record without them
\* still gives a vertex.
BuildVertexLenient(node, rid) ==
    LET id == Item(node, "id")
        typeActor == Item(node, "typeActor")
        content == Get(Get(node, "data", EmptyObj), "content", EmptyObj)
        latitude == Get(content, "latitude", None)
        longitude == Get(content, "longitude", None)
    IN IF IsExc(id) THEN id
       ELSE IF IsExc(typeActor) THEN typeActor
       ELSE IF IsExc(latitude) THEN latitude
       ELSE IF IsExc(longitude) THEN longitude
       ELSE [t |-> "vertex",
             v |-> [id |-> id, classType |-> typeActor, resourceId |-> rid,
                    latitude |-> latitude, longitude |-> longitude]]

\* The vertex of a node record, or the exception building it raises.
BuildVertex(node, rid) ==
    LET id == Item(node, "id")
        typeActor == Item(node, "typeActor")
        latitude == Item(Item(Item(node, "data"), "content"), "latitude")
        longitude == Item(Item(Item(node, "data"), "content"), "longitude")
    IN IF IsExc(id) THEN id
       ELSE IF IsExc(typeActor) THEN typeActor
       ELSE IF IsExc(latitude) THEN latitude
       ELSE IF IsExc(longitude) THEN longitude
       ELSE [t |-> "vertex",
             v |-> [id |-> id, classType |-> typeActor, resourceId |-> rid,
                    latitude |-> latitude, longitude |-> longitude]]

KeyErrorMsg(what) == "Key error in " \o what

ValueErrorMsg == "Could not convert 'length' to float in link"

\* After a record: on to the next one, or to the end of the loop body.
AfterRecord(here, gave) ==
    /\ todo' = todo - 1
    /\ pc' = IF todo = 1 THEN "next" ELSE here
    /\ entry_gave' = (entry_gave \/ gave)
    /\ UNCHANGED << config, args, idx, locals, processed, files_not_found,
                    json_errors, output, budget, n_opened, some_ok,
                    entry_kind, read_kind >>

\* One pass through the body of the loop over nodes_data.
NodeRecord ==
    /\ pc = "nodes"
    /\ todo > 0
    /\ \E node \in NodeRecords :
          LET built == BuildVertex(node, resource_id)
          IN /\ all_vertices' =
                   IF built.t = "vertex" THEN Append(all_vertices, built.v)
                   ELSE all_vertices
             /\ key_errors' =
                   IF built = Exc("KeyError")
                   THEN Append(key_errors, KeyErrorMsg("node"))
                   ELSE key_errors
             /\ AfterRecord("nodes", built.t = "vertex")
             /\ rec_kind' = NodeKind(node)
             /\ expected_vertices' =
                   IF ValidNode(node)
                   THEN Append(expected_vertices,
                               ExpectedVertex(node, resource_id))
                   ELSE expected_vertices
             /\ UNCHANGED << all_edges, expected_edges, first_defined,
                             first_truthy >>

\* NodeIdOf with the two locations the other way round.
NodeIdOfFallbackFirst(link, end) ==
    Or(Get(Get(Get(link, "dependencies", EmptyObj), end, EmptyObj), "id", None),
       Get(Get(Get(link, "data", EmptyObj), "content", EmptyObj), end, None))

\* link.get("data", {}).get("content", {}).get(end)
\*     or link.get("dependencies", {}).get(end, {}).get("id")
NodeIdOf(link, end) ==
    Or(Get(Get(Get(link, "data", EmptyObj), "content", EmptyObj), end, None),
       Get(Get(Get(link, "dependencies", EmptyObj), end, EmptyObj), "id", None))

\* The edge of a link record, "continue", or the exception building it raises.
BuildEdge(link, rid, ct) ==
    LET source_node_id == NodeIdOf(link, "from_node")
        target_node_id == NodeIdOf(link, "to_node")
        link_id == Item(link, "id")
        length_str == Item(Item(Item(link, "data"), "content"), "length")
        length_float == Float(length_str)
    IN IF IsExc(source_node_id) THEN source_node_id
       ELSE IF IsExc(target_node_id) THEN target_node_id
       ELSE IF IsExc(link_id) THEN link_id
       ELSE IF IsExc(length_float) THEN length_float
       ELSE IF ~Truthy(source_node_id) \/ ~Truthy(target_node_id)
            THEN [t |-> "continue", v |-> 0]
       ELSE [t |-> "edge",
             v |-> [source_id |-> source_node_id,
                    target_id |-> target_node_id,
                    weight |-> length_float,
                    label |-> [id |-> link_id, resourceId |-> rid,
                               classType |-> ct, length |-> length_float]]]

\* One pass through the body of the loop over links_data.
LinkRecord ==
    /\ pc = "links"
    /\ todo > 0
    /\ \E link \in LinkRecords :
          LET built == BuildEdge(link, resource_id, class_type)
          IN /\ all_edges' =
                   IF built.t = "edge" THEN Append(all_edges, built.v)
                   ELSE all_edges
             /\ key_errors' =
                   IF built = Exc("KeyError")
                   THEN Append(key_errors, KeyErrorMsg("link"))
                   ELSE IF built = Exc("ValueError")
                   THEN Append(key_errors, ValueErrorMsg)
                   ELSE key_errors
             /\ AfterRecord("links", built.t = "edge")
             /\ rec_kind' = LinkKind(link)
             /\ expected_edges' =
                   IF ValidLink(link, TRUE)
                   THEN Append(expected_edges,
                               ExpectedEdge(link, resource_id, TRUE))
                   ELSE expected_edges
             /\ first_defined' = EndsAgree(link, built, FALSE)
             /\ first_truthy' = EndsAgree(link, built, TRUE)
             /\ UNCHANGED << all_vertices, expected_vertices >>

\* The document json.dump() is given.
GpsMapData ==
    [nodes |-> all_vertices, edges |-> all_edges, directed |-> FALSE]

\* NoDataDueToErrors without the test of the buckets.
NoDataAtAll ==
    /\ all_vertices = << >>
    /\ all_edges = << >>

\* if not all_vertices and not all_edges and (files_not_found or json_errors
\*                                            or key_errors)
NoDataDueToErrors ==
    /\ all_vertices = << >>
    /\ all_edges = << >>
    /\ files_not_found # << >> \/ json_errors # << >> \/ key_errors # << >>

\* open(output_path, 'w') and json.dump(): the file is written, or open()
\* fails and leaves what was there.
WriteOutput ==
    /\ out_writes' = out_writes + 1
    /\ \/ out_file' = [t |-> "document", v |-> GpsMapData]
       \/ out_file' = out_file

\* The end of the run, once the loop over actorsDataSources is exhausted: the
\* error report, the summary and the save.
Finalize ==
    /\ pc = "loop"
    /\ idx = config.ads.n
    /\ pc' = "done"
    /\ IF NoDataDueToErrors
       THEN UNCHANGED output
       ELSE \/ /\ out_mkdir' = "not_needed"
               /\ UNCHANGED out_dir_created
               /\ WriteOutput
            \/ /\ out_mkdir' = "created"
               /\ out_dir_created' = TRUE
               /\ WriteOutput
            \/ /\ out_mkdir' = "failed"
               /\ UNCHANGED << out_dir_created, out_writes, out_file >>
    /\ UNCHANGED << config, args, idx, locals, todo, graph, processed, buckets,
                    budget, runLog, iterLog >>

NextSource == SourceOver(PathValues)

Init == InitOver(PrefixPairs, MaxRecords)

Next ==
    ReadConfig \/ NextSource \/ NodeRecord \/ LinkRecord \/ Continue
        \/ Finalize

Spec == Init /\ [][Next]_vars

\* The runs over manifests whose files hold no record, with every pair of
\* prefixes and every path.
RemapSource == SourceOver(AllPathValues)

RemapInit == InitOver(AllPrefixPairs, 0)

RemapNext == ReadConfig \/ RemapSource \/ Continue \/ Finalize

RemapSpec == RemapInit /\ [][RemapNext]_vars

---------------------------------------------------------------------------
\* The properties.

BucketTotal == Len(files_not_found) + Len(json_errors) + Len(key_errors)

GraphEmpty == Len(all_vertices) + Len(all_edges) = 0

NothingOut ==
    /\ out_file = NoFile
    /\ ~out_dir_created
    /\ out_writes = 0

\* The manifest was read, was an object and had the key: the run went into
\* the loop over the entries, and has come to its end.
Finalized == pc = "done" /\ config.t = "obj" /\ config.has

\* The manifest file is missing or malformed, or what it holds has no
\* "actorsDataSources" key.
ManifestFatal ==
    \/ config.t \in {"FileNotFoundError", "JSONDecodeError"}
    \/ config.t \in {"none", "num", "str", "arr", "obj"} /\ ~config.has

\* C1: the call never raises past its boundary: whatever the manifest, the
\* files and the prefixes are, every run ends by returning.
NeverRaises == pc # "raised"

\* C2: once all entries are processed, nothing is written and no directory
\* is created if the graph is empty and some error was recorded; in every
\* other case the directory is ensured and exactly one write of the document
\* is attempted.
FinalizationRule ==
    Finalized =>
        IF GraphEmpty /\ BucketTotal > 0
        THEN NothingOut
        ELSE /\ out_mkdir \in {"not_needed", "created"}
             /\ out_writes = 1
             /\ out_file \in {NoFile, [t |-> "document", v |-> GpsMapData]}

\* C2, amended: as above, but when the directory is missing and cannot be
\* created, no write is attempted and nothing is left behind.
FinalizationRuleOrNoDirectory ==
    Finalized =>
        IF GraphEmpty /\ BucketTotal > 0
        THEN NothingOut /\ out_mkdir = "not_reached"
        ELSE \/ /\ out_mkdir \in {"not_needed", "created"}
                /\ out_dir_created = (out_mkdir = "created")
                /\ out_writes = 1
                /\ out_file \in {NoFile, [t |-> "document", v |-> GpsMapData]}
             \/ /\ out_mkdir = "failed"
                /\ NothingOut

\* An empty graph with no recorded error is written, into a directory the
\* run created.
EmptyGraphWritten ==
    /\ Finalized
    /\ GraphEmpty
    /\ BucketTotal = 0
    /\ out_mkdir = "created"
    /\ out_file = [t |-> "document", v |-> GpsMapData]

\* C3: if every entry of the manifest fails, whatever the kind of failure,
\* and no vertex and no edge results, no output file and no output directory
\* is created.
AllFailedNothingOut ==
    (Finalized /\ idx > 0 /\ ~some_ok /\ GraphEmpty) =>
        out_file = NoFile /\ ~out_dir_created

\* C4: the nodes of the output document are, one for one and in order, the
\* valid node records of the node entries, and its edges the valid link
\* records of the link entries, each with the resourceId of its entry.
OneForOne ==
    (pc = "done" /\ out_file.t = "document") =>
        LET nodes == out_file.v.nodes
            edges == out_file.v.edges
        IN /\ Len(nodes) = Len(expected_vertices)
           /\ Len(edges) = Len(expected_edges)
           /\ \A i \in 1..Len(expected_vertices) :
                 /\ nodes[i].id = expected_vertices[i].id
                 /\ nodes[i].resourceId = expected_vertices[i].resourceId
           /\ \A i \in 1..Len(expected_edges) :
                 /\ edges[i].label.id = expected_edges[i].id
                 /\ edges[i].label.resourceId = expected_edges[i].resourceId

\* A document with a vertex of the first entry and an edge of the second.
VertexAndEdgeWritten ==
    /\ pc = "done"
    /\ out_file.t = "document"
    /\ Len(out_file.v.nodes) = 1
    /\ Len(out_file.v.edges) = 1
    /\ out_file.v.nodes[1].resourceId = Str(<<"r", 1>>)
    /\ out_file.v.edges[1].label.resourceId = Str(<<"r", 2>>)

\* A step that meets a file-level or a record-level error.
ErrorStep ==
    \/ /\ pc = "loop"
       /\ read_kind' \in {"FileNotFoundError", "JSONDecodeError", "OSError"}
    \/ /\ pc \in {"nodes", "links"}
       /\ RecordError(rec_kind')

\* The step leaves the run in the record loop or on its way to the next
\* entry.
PassGoesOn == pc' \in {"nodes", "links", "next"}

\* C5: every file-level error (missing file, malformed content, any other
\* exception of the read) and every record-level error (missing field,
\* unparseable length, missing endpoint) adds an entry to a bucket, and the
\* pass goes on.
ErrorsAreBucketed ==
    [][ErrorStep => (BucketTotal' = BucketTotal + 1 /\ PassGoesOn)]_vars

RecordStep == pc \in {"nodes", "links"}

Isolated ==
    /\ (\/ pc = "nodes" /\ rec_kind' = "missing_field"
        \/ pc = "links" /\ rec_kind' = "bad_length")
       => /\ Len(key_errors') = Len(key_errors) + 1
          /\ UNCHANGED graph
    /\ rec_kind' = "valid"
       => Len(all_vertices') + Len(all_edges')
             = Len(all_vertices) + Len(all_edges) + 1
    /\ SubSeq(all_vertices', 1, Len(all_vertices)) = all_vertices
    /\ SubSeq(all_edges', 1, Len(all_edges)) = all_edges

\* C6: a node record missing a required field, or a link record whose length
\* is a non-numeric string, gives nothing and adds exactly one entry to the
\* key-error bucket; a valid record gives its vertex or edge whatever came
\* before it, and nothing that was given is lost.
PartialFailureIsolation == [][RecordStep => Isolated]_vars

\* The leading part of a path, and what follows it.
HasPrefix(p, d) == Len(d) <= Len(p) /\ SubSeq(p, 1, Len(d)) = d

Remainder(p, d) == SubSeq(p, Len(d) + 1, Len(p))

\* The path the remapping rule gives, when "supplied" is read one way or
\* the other.
Remapped(raw, supplied) ==
    IF /\ supplied
       /\ raw.t = "str"
       /\ HasPrefix(raw.v, docker_path_prefix.v)
    THEN Str(host_path_prefix.v \o Remainder(raw.v, docker_path_prefix.v))
    ELSE raw

\* The entry of this iteration had its file opened.
FileTried == read_kind # "none"

\* C7: if both prefixes are supplied and the raw path starts with the docker
\* prefix, the file opened is the host prefix followed by the rest of the
\* raw path; otherwise it is the raw path.
PathRemapping ==
    FileTried =>
        file_path = Remapped(original_file_path,
                             /\ docker_path_prefix # None
                             /\ host_path_prefix # None)

\* C7, amended: the same, where a prefix given as the empty string counts as
\* not supplied.
PathRemappingNonEmpty ==
    FileTried =>
        file_path = Remapped(original_file_path,
                             /\ docker_path_prefix \notin {None, Str(<< >>)}
                             /\ host_path_prefix \notin {None, Str(<< >>)})

\* A path in which the docker prefix recurs is remapped at its head only.
RemappedOnce ==
    /\ FileTried
    /\ docker_path_prefix = Str(<<"a">>)
    /\ host_path_prefix = Str(<<"h">>)
    /\ original_file_path = Str(<<"a", "a", "b">>)
    /\ file_path = Str(<<"h", "a", "b">>)

\* C8: if the manifest file is missing or malformed, or has no
\* "actorsDataSources" key, the run is over at once: no data-source file has
\* been opened, there is no vertex and no edge, and nothing is written.
ManifestErrorsFatal ==
    (pc # "start" /\ ManifestFatal) =>
        /\ pc \in {"done", "raised"}
        /\ n_opened = 0
        /\ node_files_processed = << >>
        /\ link_files_processed = << >>
        /\ GraphEmpty
        /\ NothingOut

\* The run has returned on a manifest that is an object without the key.
ReturnedOnMissingKey ==
    /\ pc = "done"
    /\ config.t = "obj"
    /\ ~config.has
    /\ NothingOut

\* The step takes up an entry that is to be ignored.
IgnoredStep == pc = "loop" /\ entry_kind' = "ignored"

NoEffect ==
    /\ pc' = "next"
    /\ idx' = idx + 1
    /\ n_opened' = n_opened
    /\ UNCHANGED << graph, buckets, processed >>

\* C9: an entry without id or path, or of neither type, opens no file,
\* leaves the graph, the buckets and the files-processed lists as they are,
\* and the pass goes on with the next entry.
IgnoredEntriesNoEffect == [][IgnoredStep => NoEffect]_vars

====
